---- MODULE Spec2Model ----
(***************************************************************************)
(* Model of voxelmorph/tensorflow_backend/model_io.py: the decorator       *)
(* store_config_args and the class LoadableModel (get_config, from_config, *)
(* load), run against a small family of LoadableModel subclasses.          *)
(***************************************************************************)
EXTENDS Integers, Sequences, FiniteSets, TLC

VARIABLES
    m,          \* the instance the user built (NoInst before that)
    container,  \* the H5 file at path "p1"
    call,       \* the top-level operation in progress or last finished
    pc,         \* its position
    inst,       \* the instance under construction
    stack,      \* the __init__ frames in progress, innermost last
    exc,        \* the exception in flight ("none" when there is none)
    origin,     \* the exception as first raised in this operation
    cfg,        \* load's local variable config
    fileOpen,   \* load's h5py.File handle is open
    ret,        \* what the operation returned to its caller
    outcome,    \* "none" while running, "ok" or the error the caller saw
    steps,      \* the steps the operation has taken, in order
    ctorCall,   \* the constructor call made by from_config or load
    lwCall      \* the load_weights call made by load

vars == <<m, container, call, pc, inst, stack, exc, origin, cfg, fileOpen,
          ret, outcome, steps, ctorCall, lwCall>>

----------------------------------------------------------------------------
(* Bounds *)

MaxInt == 1        \* integer argument values are 0..MaxInt
MaxWeight == 1     \* weight values are 0..MaxWeight

----------------------------------------------------------------------------
(* Values.  A Python value is an int, a tuple or a list; a JSON value is a  *)
(* number or an array.                                                      *)

IntVal(n) == <<"int", n>>
TupleVal == <<"tuple", 0>>
ListVal == <<"list", 0>>

InputVals == {IntVal(n) : n \in 1..MaxInt} \cup {TupleVal}
Weights == 0..MaxWeight

EmptyMap == [x \in {} |-> x]

Assign(c, k, v) == [x \in (DOMAIN c) \cup {k} |-> IF x = k THEN v ELSE c[x]]

Update(c, kw) ==
    [x \in (DOMAIN c) \cup (DOMAIN kw) |-> IF x \in DOMAIN kw THEN kw[x] ELSE c[x]]

Reversed(s) == [i \in 1..Len(s) |-> s[Len(s) + 1 - i]]

\* for attr, val in zip(names, vals): c[attr] = val
RECURSIVE ApplyPairs(_, _, _)
ApplyPairs(c, names, vals) ==
    IF Len(names) = 0 \/ Len(vals) = 0 THEN c
    ELSE ApplyPairs(Assign(c, Head(names), Head(vals)), Tail(names), Tail(vals))

Range(s) == {s[i] : i \in 1..Len(s)}

----------------------------------------------------------------------------
(* The subclasses of LoadableModel the model runs.                          *)
(*   Simple : @store_config_args __init__(self, a, b=0, c=()),              *)
(*            body calls super().__init__()                                 *)
(*   Custom : @store_config_args __init__(self, a, b=0), overrides          *)
(*            from_config to turn list values back into tuples              *)
(*   Child  : subclass of Simple, @store_config_args __init__(self, a, e),  *)
(*            body calls super().__init__(a)                                *)
(*   Plain  : __init__(self, a) not decorated, body calls super().__init__()*)

ClassNames == {"Simple", "Custom", "Child", "Plain"}

ClassTable ==
    [Simple |-> [decorated |-> TRUE, attrs |-> <<"self", "a", "b", "c">>,
                 defaults |-> <<IntVal(0), TupleVal>>,
                 parent |-> "LoadableModel", superArgs |-> <<>>,
                 overrides |-> FALSE],
     Custom |-> [decorated |-> TRUE, attrs |-> <<"self", "a", "b">>,
                 defaults |-> <<IntVal(0)>>,
                 parent |-> "LoadableModel", superArgs |-> <<>>,
                 overrides |-> TRUE],
     Child  |-> [decorated |-> TRUE, attrs |-> <<"self", "a", "e">>,
                 defaults |-> <<>>,
                 parent |-> "Simple", superArgs |-> <<"a">>,
                 overrides |-> FALSE],
     Plain  |-> [decorated |-> FALSE, attrs |-> <<"self", "a">>,
                 defaults |-> <<>>,
                 parent |-> "LoadableModel", superArgs |-> <<>>,
                 overrides |-> FALSE]]

\* inspect.getargspec(func): (attrs, varargs, varkw, defaults)
Attrs(K) == ClassTable[K].attrs
Defaults(K) == ClassTable[K].defaults
Params(K) == Tail(Attrs(K))
NumRequired(K) == Len(Params(K)) - Len(Defaults(K))

----------------------------------------------------------------------------
(* Python's binding of a call func(self, *args, **kwargs) to named          *)
(* parameters.                                                              *)

BindError(K, args, kwargs) ==
    \/ Len(args) > Len(Params(K))
    \/ \E k \in DOMAIN kwargs : k \notin Range(Params(K))
    \/ \E i \in 1..Len(Params(K)) : i <= Len(args) /\ Params(K)[i] \in DOMAIN kwargs
    \/ \E i \in 1..NumRequired(K) : i > Len(args) /\ Params(K)[i] \notin DOMAIN kwargs

Bind(K, args, kwargs) ==
    [p \in Range(Params(K)) |->
        LET i == CHOOSE j \in 1..Len(Params(K)) : Params(K)[j] = p
        IN  IF i <= Len(args) THEN args[i]
            ELSE IF p \in DOMAIN kwargs THEN kwargs[p]
            ELSE Defaults(K)[i - NumRequired(K)]]

----------------------------------------------------------------------------
(* store_config_args.wrapper: the mapping it leaves in self.config          *)

\* a wrapper that pairs the positional arguments with attrs, self included
StoreConfigWithSelf(attrs, defaults, args, kwargs) ==
    LET c1 == IF Len(defaults) > 0
              THEN ApplyPairs(EmptyMap, Reversed(attrs), Reversed(defaults))
              ELSE EmptyMap
        c2 == ApplyPairs(c1, attrs, args)
    IN  IF DOMAIN kwargs # {} THEN Update(c2, kwargs) ELSE c2

StoreConfig(attrs, defaults, args, kwargs) ==
    LET c1 == IF Len(defaults) > 0
              THEN ApplyPairs(EmptyMap, Reversed(attrs), Reversed(defaults))
              ELSE EmptyMap
        c2 == ApplyPairs(c1, Tail(attrs), args)
        c3 == IF DOMAIN kwargs # {} THEN Update(c2, kwargs) ELSE c2
    IN  c3

\* func(self, *args, **kwargs): what the wrapper hands to the original
ForwardArgsRecorded(args, kwargs, config) == [args |-> <<>>, kwargs |-> config]

ForwardArgs(args, kwargs, config) == [args |-> args, kwargs |-> kwargs]

----------------------------------------------------------------------------
(* Instances, frames, the container                                         *)

NoInst == [cls |-> "none", hasConfig |-> FALSE, config |-> EmptyMap, writes |-> 0,
           bound |-> EmptyMap, baseInit |-> FALSE, weights |-> 0]

Fresh(K) == [NoInst EXCEPT !.cls = K]

NoCall == [cls |-> "none", args |-> <<>>, kwargs |-> EmptyMap]
NoLoadWeights == [path |-> "none", by_name |-> FALSE]

NewFrame(K, args, kwargs) ==
    IF ClassTable[K].decorated
    THEN [fn |-> K, args |-> args, kwargs |-> kwargs, fargs |-> <<>>,
          fkwargs |-> EmptyMap, at |-> "wrapper"]
    ELSE [fn |-> K, args |-> args, kwargs |-> kwargs, fargs |-> args,
          fkwargs |-> kwargs, at |-> "enter"]

BaseFrame ==
    [fn |-> "LoadableModel", args |-> <<>>, kwargs |-> EmptyMap, fargs |-> <<>>,
     fkwargs |-> EmptyMap, at |-> "guard"]

Top == stack[Len(stack)]
Pop == SubSeq(stack, 1, Len(stack) - 1)
SetTop(f) == [stack EXCEPT ![Len(stack)] = f]

Paths == {"p1", "p2"}

NoFile == [kind |-> "missing", config |-> EmptyMap, weights |-> 0]

\* the file found at a path: only "p1" is ever written
FileAt(path) == IF path = "p1" THEN container ELSE NoFile

\* json.dumps of a value (done by the framework's save), json.loads of it
JsonDumps(v) == IF v[1] = "int" THEN <<"num", v[2]>> ELSE <<"arr", v[2]>>
JsonLoads(j) == IF j[1] = "num" THEN <<"int", j[2]>> ELSE <<"list", j[2]>>

JsonDumpsConfig(c) == [k \in DOMAIN c |-> JsonDumps(c[k])]
JsonLoadsConfig(c) == [k \in DOMAIN c |-> JsonLoads(c[k])]

\* LoadableModel.get_config
get_config(i) == i.config

\* cls.from_config(config): the constructor call it makes
FromConfigCall(K, config) ==
    IF ClassTable[K].overrides
    THEN [cls |-> K, args |-> <<>>,
          kwargs |-> [k \in DOMAIN config |->
                        IF config[k] = ListVal THEN TupleVal ELSE config[k]]]
    ELSE [cls |-> K, args |-> <<>>, kwargs |-> config]

\* a load that goes through cls.from_config(config)
LoadCtorCallViaFactory(K, config) == FromConfigCall(K, config)

\* load: model = cls(**config)
LoadCtorCall(K, config) == [cls |-> K, args |-> <<>>, kwargs |-> config]

\* a read that falls back to an empty config when the attribute is absent
ReadErrorLenient(file) ==
    CASE file.kind = "badjson" -> "JSONDecodeError"
      [] file.kind = "nokey" -> "KeyError"
      [] OTHER -> "none"

\* json.loads(f.attrs['model_config'].decode('utf-8'))['config']: its error
ReadError(file) ==
    CASE file.kind = "noattr" -> "KeyError"
      [] file.kind = "badjson" -> "JSONDecodeError"
      [] file.kind = "nokey" -> "KeyError"
      [] OTHER -> "none"

\* a load that wraps what it raises in an error of its own
PropagateTranslated(e) == "LoadError"

\* load has no try/except: the caller sees the exception in flight
Propagate(e) == e

\* a LoadableModel.__init__ that does not check for self.config
GuardFailsNever(i) == FALSE

\* LoadableModel.__init__: not hasattr(self, 'config')
GuardFails(i) == ~i.hasConfig

ArgSeqs(n) == UNION {[1..k -> InputVals] : k \in 0..n}
KwMaps(S) == UNION {[D -> InputVals] : D \in SUBSET S}

----------------------------------------------------------------------------
Init ==
    /\ m = NoInst
    /\ container = NoFile
    /\ call = [name |-> "none", cls |-> "none", path |-> "p1", by_name |-> FALSE]
    /\ pc = "idle"
    /\ inst = NoInst
    /\ stack = <<>>
    /\ exc = "none"
    /\ origin = "none"
    /\ cfg = EmptyMap
    /\ fileOpen = FALSE
    /\ ret = NoInst
    /\ outcome = "none"
    /\ steps = <<>>
    /\ ctorCall = NoCall
    /\ lwCall = NoLoadWeights

\* the start of a top-level operation
Begin(name, K, path, bn) ==
    /\ pc = "idle"
    /\ call' = [name |-> name, cls |-> K, path |-> path, by_name |-> bn]
    /\ exc' = "none"
    /\ origin' = "none"
    /\ cfg' = EmptyMap
    /\ ret' = NoInst
    /\ outcome' = "none"
    /\ lwCall' = NoLoadWeights

Raise(e) ==
    /\ exc' = e
    /\ origin' = IF origin = "none" THEN e ELSE origin

----------------------------------------------------------------------------
(* Construction: the __init__ chain of one instance                         *)

\* wrapper, lines 19-33: self.config = {} and the three passes over it
WrapperStore ==
    /\ stack # <<>> /\ exc = "none" /\ Top.at = "wrapper"
    /\ inst' = [inst EXCEPT
                  !.hasConfig = TRUE,
                  !.config = StoreConfig(Attrs(Top.fn), Defaults(Top.fn),
                                         Top.args, Top.kwargs),
                  !.writes = @ + 1]
    /\ stack' = SetTop([Top EXCEPT !.at = "forward"])
    /\ steps' = Append(steps, "store")
    /\ UNCHANGED <<m, container, call, pc, exc, origin, cfg, fileOpen, ret,
                   outcome, ctorCall, lwCall>>

\* wrapper, line 35: return func(self, *args, **kwargs)
CallOriginal ==
    /\ stack # <<>> /\ exc = "none" /\ Top.at = "forward"
    /\ LET fwd == ForwardArgs(Top.args, Top.kwargs, inst.config)
       IN  stack' = SetTop([Top EXCEPT !.fargs = fwd.args, !.fkwargs = fwd.kwargs,
                                       !.at = "enter"])
    /\ steps' = Append(steps, "call")
    /\ UNCHANGED <<m, container, call, pc, inst, exc, origin, cfg, fileOpen, ret,
                   outcome, ctorCall, lwCall>>

\* the original __init__ is entered: its arguments are bound or TypeError
EnterInit ==
    /\ stack # <<>> /\ exc = "none" /\ Top.at = "enter"
    /\ IF BindError(Top.fn, Top.fargs, Top.fkwargs)
       THEN /\ Raise("TypeError")
            /\ UNCHANGED <<stack, inst>>
       ELSE /\ stack' = SetTop([Top EXCEPT !.at = "body"])
            /\ inst' = IF Len(stack) = 1
                       THEN [inst EXCEPT !.bound = Bind(Top.fn, Top.fargs, Top.fkwargs)]
                       ELSE inst
            /\ UNCHANGED <<exc, origin>>
    /\ steps' = Append(steps, "enter")
    /\ UNCHANGED <<m, container, call, pc, cfg, fileOpen, ret, outcome, ctorCall,
                   lwCall>>

\* the body of a subclass __init__: super().__init__(...)
BodySuper ==
    /\ stack # <<>> /\ exc = "none" /\ Top.at = "body"
    /\ LET K == Top.fn
           b == Bind(K, Top.fargs, Top.fkwargs)
           sa == ClassTable[K].superArgs
           callee == IF ClassTable[K].parent = "LoadableModel"
                     THEN BaseFrame
                     ELSE NewFrame(ClassTable[K].parent,
                                   [i \in 1..Len(sa) |-> b[sa[i]]], EmptyMap)
       IN  stack' = Append(SetTop([Top EXCEPT !.at = "wait"]), callee)
    /\ steps' = Append(steps, "super")
    /\ UNCHANGED <<m, container, call, pc, inst, exc, origin, cfg, fileOpen, ret,
                   outcome, ctorCall, lwCall>>

\* LoadableModel.__init__, lines 56-57
BaseGuard ==
    /\ stack # <<>> /\ exc = "none" /\ Top.fn = "LoadableModel" /\ Top.at = "guard"
    /\ IF GuardFails(inst)
       THEN /\ Raise("RuntimeError")
            /\ UNCHANGED stack
       ELSE /\ stack' = SetTop([Top EXCEPT !.at = "keras"])
            /\ UNCHANGED <<exc, origin>>
    /\ steps' = Append(steps, "guard")
    /\ UNCHANGED <<m, container, call, pc, inst, cfg, fileOpen, ret, outcome,
                   ctorCall, lwCall>>

\* LoadableModel.__init__, line 58: super().__init__(*args, **kwargs)
KerasInit ==
    /\ stack # <<>> /\ exc = "none" /\ Top.fn = "LoadableModel" /\ Top.at = "keras"
    /\ inst' = [inst EXCEPT !.baseInit = TRUE, !.weights = 0]
    /\ stack' = Pop
    /\ steps' = Append(steps, "keras")
    /\ UNCHANGED <<m, container, call, pc, exc, origin, cfg, fileOpen, ret, outcome,
                   ctorCall, lwCall>>

\* a subclass __init__ returns after its super().__init__ call
ReturnInit ==
    /\ stack # <<>> /\ exc = "none" /\ Top.at = "wait"
    /\ stack' = Pop
    /\ steps' = Append(steps, "init_return")
    /\ UNCHANGED <<m, container, call, pc, inst, exc, origin, cfg, fileOpen, ret,
                   outcome, ctorCall, lwCall>>

\* an exception leaves an __init__ frame: no frame handles it
Unwind ==
    /\ stack # <<>> /\ exc # "none"
    /\ stack' = Pop
    /\ UNCHANGED <<m, container, call, pc, inst, exc, origin, cfg, fileOpen, ret,
                   outcome, steps, ctorCall, lwCall>>

----------------------------------------------------------------------------
(* The user's operations                                                    *)

\* K(*args, **kwargs): the user's first operation builds the instance m
Construct(K, args, kwargs) ==
    /\ call.name = "none"
    /\ Begin("construct", K, "none", FALSE)
    /\ ctorCall' = [cls |-> K, args |-> args, kwargs |-> kwargs]
    /\ inst' = Fresh(K)
    /\ stack' = <<NewFrame(K, args, kwargs)>>
    /\ pc' = "constructing"
    /\ steps' = <<"build">>
    /\ UNCHANGED <<m, container, fileOpen>>

ConstructDone ==
    /\ call.name = "construct" /\ pc = "constructing"
    /\ stack = <<>> /\ exc = "none"
    /\ m' = inst
    /\ inst' = NoInst
    /\ outcome' = "ok"
    /\ pc' = "idle"
    /\ UNCHANGED <<container, call, stack, exc, origin, cfg, fileOpen, ret, steps,
                   ctorCall, lwCall>>

\* type(m).from_config(m.get_config())
FromConfig ==
    /\ m # NoInst
    /\ Begin("from_config", m.cls, "none", FALSE)
    /\ LET c == FromConfigCall(m.cls, get_config(m))
       IN  /\ ctorCall' = c
           /\ inst' = Fresh(c.cls)
           /\ stack' = <<NewFrame(c.cls, c.args, c.kwargs)>>
    /\ pc' = "constructing"
    /\ steps' = <<"build">>
    /\ UNCHANGED <<m, container, fileOpen>>

FromConfigDone ==
    /\ call.name = "from_config" /\ pc = "constructing"
    /\ stack = <<>> /\ exc = "none"
    /\ ret' = inst
    /\ inst' = NoInst
    /\ outcome' = "ok"
    /\ pc' = "idle"
    /\ UNCHANGED <<m, container, call, stack, exc, origin, cfg, fileOpen, steps,
                   ctorCall, lwCall>>

\* the exception of a failed constructor call reaches the user
ConstructFail ==
    /\ call.name \in {"construct", "from_config"} /\ pc = "constructing"
    /\ stack = <<>> /\ exc # "none"
    /\ outcome' = exc
    /\ exc' = "none"
    /\ inst' = NoInst
    /\ pc' = "idle"
    /\ UNCHANGED <<m, container, call, stack, origin, cfg, fileOpen, ret, steps,
                   ctorCall, lwCall>>

\* the framework trains m: its weights change
Train(w) ==
    /\ m # NoInst /\ m.weights # w
    /\ Begin("train", m.cls, "none", FALSE)
    /\ m' = [m EXCEPT !.weights = w]
    /\ steps' = <<>>
    /\ ctorCall' = NoCall
    /\ UNCHANGED <<container, pc, inst, stack, fileOpen>>

\* the framework saves m to "p1": get_config() as JSON under model_config, and
\* the weights
Save ==
    /\ m # NoInst
    /\ Begin("save", m.cls, "p1", FALSE)
    /\ container' = [kind |-> "ok", config |-> JsonDumpsConfig(get_config(m)),
                     weights |-> m.weights]
    /\ steps' = <<>>
    /\ ctorCall' = NoCall
    /\ UNCHANGED <<m, pc, inst, stack, fileOpen>>

\* the file at "p1" is removed, or replaced by one without usable metadata
Corrupt(kind) ==
    /\ container.kind # kind
    /\ Begin("corrupt", "none", "p1", FALSE)
    /\ container' = [kind |-> kind, config |-> EmptyMap, weights |-> 0]
    /\ steps' = <<>>
    /\ ctorCall' = NoCall
    /\ UNCHANGED <<m, pc, inst, stack, fileOpen>>

----------------------------------------------------------------------------
(* LoadableModel.load                                                       *)

\* line 85: model.load_weights(path, by_name=by_name)
WeightsCall(path, by_name) == [path |-> path, by_name |-> by_name]

\* cls.load(path, by_name)
Load(K, path, bn) ==
    /\ Begin("load", K, path, bn)
    /\ pc' = "open"
    /\ steps' = <<>>
    /\ ctorCall' = NoCall
    /\ UNCHANGED <<m, container, inst, stack, fileOpen>>

\* line 82: h5py.File(path, mode='r').__enter__
LoadOpen ==
    /\ call.name = "load" /\ pc = "open"
    /\ IF FileAt(call.path).kind = "missing"
       THEN /\ Raise("OSError")
            /\ pc' = "raise"
            /\ UNCHANGED fileOpen
       ELSE /\ fileOpen' = TRUE
            /\ pc' = "read"
            /\ UNCHANGED <<exc, origin>>
    /\ steps' = Append(steps, "open")
    /\ UNCHANGED <<m, container, call, inst, stack, cfg, ret, outcome, ctorCall,
                   lwCall>>

\* line 83: config = json.loads(f.attrs['model_config'].decode('utf-8'))['config']
LoadRead ==
    /\ call.name = "load" /\ pc = "read"
    /\ LET file == FileAt(call.path)
           err == ReadError(file)
       IN  IF err # "none"
           THEN /\ Raise(err)
                /\ UNCHANGED cfg
           ELSE /\ cfg' = JsonLoadsConfig(file.config)
                /\ UNCHANGED <<exc, origin>>
    /\ pc' = "exit"
    /\ steps' = Append(steps, "extract")
    /\ UNCHANGED <<m, container, call, inst, stack, fileOpen, ret, outcome, ctorCall,
                   lwCall>>

\* a load that leaves the file open past the metadata read
LoadExitLeaveOpen ==
    /\ call.name = "load" /\ pc = "exit"
    /\ pc' = IF exc # "none" THEN "raise" ELSE "construct"
    /\ steps' = Append(steps, "close")
    /\ UNCHANGED <<m, container, call, inst, stack, exc, origin, cfg, fileOpen, ret,
                   outcome, ctorCall, lwCall>>

\* the end of the with block: the file is closed, on an exception too
LoadExit ==
    /\ call.name = "load" /\ pc = "exit"
    /\ fileOpen' = FALSE
    /\ pc' = IF exc # "none" THEN "raise" ELSE "construct"
    /\ steps' = Append(steps, "close")
    /\ UNCHANGED <<m, container, call, inst, stack, exc, origin, cfg, ret, outcome,
                   ctorCall, lwCall>>

\* line 84: model = cls(**config)
LoadConstruct ==
    /\ call.name = "load" /\ pc = "construct"
    /\ LET c == LoadCtorCall(call.cls, cfg)
       IN  /\ ctorCall' = c
           /\ inst' = Fresh(c.cls)
           /\ stack' = <<NewFrame(c.cls, c.args, c.kwargs)>>
    /\ pc' = "constructing"
    /\ steps' = Append(steps, "build")
    /\ UNCHANGED <<m, container, call, exc, origin, cfg, fileOpen, ret, outcome,
                   lwCall>>

\* line 85: the framework's load_weights succeeds or raises
LoadWeights(ok) ==
    /\ call.name = "load" /\ pc = "constructing"
    /\ stack = <<>> /\ exc = "none"
    /\ lwCall' = WeightsCall(call.path, call.by_name)
    /\ IF ok
       THEN /\ inst' = [inst EXCEPT !.weights = FileAt(lwCall'.path).weights]
            /\ pc' = "return"
            /\ UNCHANGED <<exc, origin>>
       ELSE /\ Raise("ValueError")
            /\ pc' = "raise"
            /\ UNCHANGED inst
    /\ steps' = Append(steps, "weights")
    /\ UNCHANGED <<m, container, call, stack, cfg, fileOpen, ret, outcome, ctorCall>>

\* line 86: return model
LoadReturn ==
    /\ call.name = "load" /\ pc = "return"
    /\ ret' = inst
    /\ inst' = NoInst
    /\ outcome' = "ok"
    /\ pc' = "idle"
    /\ steps' = Append(steps, "return")
    /\ UNCHANGED <<m, container, call, stack, exc, origin, cfg, fileOpen, ctorCall,
                   lwCall>>

\* an exception leaves load: its caller sees it, the local model is dropped
LoadFail ==
    /\ call.name = "load"
    /\ \/ pc = "raise"
       \/ pc = "constructing" /\ stack = <<>> /\ exc # "none"
    /\ outcome' = Propagate(exc)
    /\ exc' = "none"
    /\ inst' = NoInst
    /\ pc' = "idle"
    /\ UNCHANGED <<m, container, call, stack, origin, cfg, fileOpen, ret, steps,
                   ctorCall, lwCall>>

----------------------------------------------------------------------------
Next ==
    \/ \E K \in ClassNames :
         \E args \in ArgSeqs(Len(Params(K))), kwargs \in KwMaps(Range(Params(K))) :
            Construct(K, args, kwargs)
    \/ WrapperStore
    \/ CallOriginal
    \/ EnterInit
    \/ BodySuper
    \/ BaseGuard
    \/ KerasInit
    \/ ReturnInit
    \/ Unwind
    \/ ConstructDone
    \/ ConstructFail
    \/ FromConfig
    \/ FromConfigDone
    \/ \E w \in Weights : Train(w)
    \/ Save
    \/ \E kind \in {"missing", "noattr", "badjson", "nokey"} : Corrupt(kind)
    \/ \E K \in ClassNames, path \in Paths, bn \in BOOLEAN : Load(K, path, bn)
    \/ LoadOpen
    \/ LoadRead
    \/ LoadExit
    \/ LoadConstruct
    \/ \E ok \in BOOLEAN : LoadWeights(ok)
    \/ LoadReturn
    \/ LoadFail

Spec == Init /\ [][Next]_vars

----------------------------------------------------------------------------
(* Helpers of the properties                                                *)

Finished(name) == call.name = name /\ pc = "idle" /\ outcome # "none"

IsPrefix(a, b) == Len(a) <= Len(b) /\ \A i \in 1..Len(a) : a[i] = b[i]

LoadStepNames == {"open", "extract", "close", "build", "weights", "return"}
IsLoadStep(x) == x \in LoadStepNames
LoadSteps == SelectSeq(steps, IsLoadStep)

\* K's __init__ chain has no decorated constructor
Undecorated(K) ==
    K \in ClassNames /\ ~ClassTable[K].decorated
    /\ ClassTable[K].parent = "LoadableModel"

----------------------------------------------------------------------------
(* C1: once the wrapper of a decorated constructor has stored self.config,  *)
(* and the call is a valid one, self.config is the binding of the call's    *)
(* arguments to the constructor's parameters: its keys are the parameters   *)
(* other than self, a positional value replaces a default, a keyword value  *)
(* replaces both.                                                           *)
C1_ConfigIsBinding ==
    (/\ stack # <<>>
     /\ Top.fn \in ClassNames
     /\ ClassTable[Top.fn].decorated
     /\ Top.at \in {"forward", "enter", "body"}
     /\ ~BindError(Top.fn, Top.args, Top.kwargs))
    => /\ inst.hasConfig
       /\ DOMAIN inst.config = Range(Params(Top.fn))
       /\ inst.config = Bind(Top.fn, Top.args, Top.kwargs)

\* a call Simple(x, b=y) with y not b's default: a positional, a keyword and
\* a defaulted parameter, after the wrapper stored the config
C1_Witness ==
    /\ stack # <<>>
    /\ Top.fn = "Simple" /\ Top.at = "forward"
    /\ Len(Top.args) = 1
    /\ DOMAIN Top.kwargs = {"b"}
    /\ Top.kwargs["b"] # IntVal(0)
    /\ inst.config = [a |-> Top.args[1], b |-> Top.kwargs["b"], c |-> TupleVal]

(* C2: from_config(m.get_config()) returns a new instance of m's class      *)
(* whose config equals the arguments m was built with.                      *)
C2_FromConfigRoundTrip ==
    Finished("from_config")
    => /\ outcome = "ok"
       /\ ret.cls = m.cls
       /\ ret.config = m.bound

(* C3: the construction of an instance of a subclass without a decorated    *)
(* constructor never completes and never runs the framework's base          *)
(* initialization; once it reaches LoadableModel.__init__ it ends in        *)
(* RuntimeError.                                                            *)
C3_UndecoratedFails ==
    /\ ~Undecorated(m.cls) /\ ~Undecorated(ret.cls)
    /\ Undecorated(inst.cls) => ~inst.baseInit /\ ~inst.hasConfig
    /\ (/\ Undecorated(ctorCall.cls)
        /\ pc = "idle" /\ outcome # "none"
        /\ "guard" \in Range(steps))
       => /\ outcome = "RuntimeError"
          /\ "keras" \notin Range(steps)

\* Plain(x) was called and ended in RuntimeError at the guard
C3_Witness ==
    /\ Finished("construct")
    /\ call.cls = "Plain"
    /\ "guard" \in Range(steps)
    /\ outcome = "RuntimeError"

(* C4: after m (built with config C) is saved, load of that file by m's     *)
(* class returns an instance of that class whose config equals C and whose  *)
(* weights are the container's, restored by load_weights on the same path   *)
(* with the caller's by_name.  A failure of the framework's load_weights is *)
(* not counted against the claim.                                           *)
C4_SaveLoadRoundTrip ==
    (/\ Finished("load")
     /\ call.path = "p1"
     /\ call.cls = m.cls
     /\ container.kind = "ok"
     /\ container.config = JsonDumpsConfig(m.config)
     /\ origin # "ValueError")
    => /\ outcome = "ok"
       /\ ret.cls = m.cls
       /\ ret.config = m.config
       /\ ret.weights = container.weights
       /\ lwCall = [path |-> call.path, by_name |-> call.by_name]

(* C5: a load of a missing path, or of a file without usable model_config   *)
(* metadata, ends in an error; no constructor is called and no instance     *)
(* exists during or after it.                                               *)
C5_BadFileNoInstance ==
    (call.name = "load" /\ FileAt(call.path).kind # "ok")
    => /\ ctorCall = NoCall
       /\ inst = NoInst
       /\ stack = <<>>
       /\ ret = NoInst
       /\ outcome # "ok"
       /\ pc \notin {"construct", "constructing", "return"}
       /\ pc = "idle" =>
            outcome = (IF FileAt(call.path).kind = "missing" THEN "OSError"
                       ELSE IF FileAt(call.path).kind = "badjson"
                       THEN "JSONDecodeError" ELSE "KeyError")

\* a load of a file without the model_config attribute has ended in KeyError
C5_Witness ==
    /\ Finished("load")
    /\ FileAt(call.path).kind = "noattr"
    /\ outcome = "KeyError"
    /\ steps = <<"open", "extract", "close">>

(* C6: load's file handle is open only between the open and the end of the  *)
(* with block: never while an instance is built or weights are loaded,      *)
(* never once load raises, returns or has failed.                           *)
C6_FileClosedAfterRead ==
    fileOpen
    => /\ call.name = "load"
       /\ pc \in {"read", "exit"}
       /\ stack = <<>>
       /\ inst = NoInst
       /\ ctorCall = NoCall
       /\ lwCall = NoLoadWeights

\* load raised while reading the metadata and the file is closed again
C6_Witness ==
    /\ call.name = "load" /\ pc = "raise"
    /\ origin \in {"KeyError", "JSONDecodeError"}
    /\ LoadSteps = <<"open", "extract", "close">>
    /\ ~fileOpen

(* C7: a load that has ended gave its caller the error first raised in it,  *)
(* unchanged, and no instance; it returned an instance only when nothing    *)
(* was raised and open, read, construction and weight loading all ran.      *)
C7_ErrorsPropagate ==
    Finished("load")
    => /\ origin # "none" => outcome = origin /\ ret = NoInst
       /\ origin = "none" => outcome = "ok"
       /\ ret # NoInst =>
            /\ outcome = "ok" /\ origin = "none"
            /\ LoadSteps = <<"open", "extract", "close", "build", "weights", "return">>
            /\ ret.baseInit

\* the constructor rejected the stored config and load's caller saw TypeError
C7_Witness ==
    /\ Finished("load")
    /\ origin = "TypeError"
    /\ outcome = "TypeError"
    /\ LoadSteps = <<"open", "extract", "close", "build">>

(* C8 as claimed: the constructor call load makes is the one the class's    *)
(* from_config makes for the extracted config.                              *)
C8_LoadUsesFactory ==
    (call.name = "load" /\ ctorCall # NoCall)
    => ctorCall = FromConfigCall(call.cls, cfg)

(* C8 as amended: load calls the class's constructor itself with the        *)
(* extracted config as keyword arguments, which is the call the inherited   *)
(* from_config makes; and load's steps are, in order, open, extract, close, *)
(* build, weights, return.                                                  *)
C8_LoadCallsConstructor ==
    call.name = "load"
    => /\ ctorCall # NoCall =>
            /\ ctorCall = [cls |-> call.cls, args |-> <<>>, kwargs |-> cfg]
            /\ ~ClassTable[call.cls].overrides =>
                    ctorCall = FromConfigCall(call.cls, cfg)
       /\ IsPrefix(LoadSteps,
                   <<"open", "extract", "close", "build", "weights", "return">>)

\* Custom.load has returned, having called Custom's constructor with a list
\* where Custom.from_config would have passed a tuple
C8_Witness ==
    /\ Finished("load")
    /\ call.cls = "Custom"
    /\ outcome = "ok"
    /\ ctorCall.kwargs # FromConfigCall("Custom", cfg).kwargs
    /\ LoadSteps = <<"open", "extract", "close", "build", "weights", "return">>

(* C9: a completed construction has assigned self.config once, and the      *)
(* config is the arguments of the most-derived constructor.                 *)
C9_ConfigWrittenOnce ==
    /\ m # NoInst => m.writes = 1 /\ m.config = m.bound
    /\ ret # NoInst => ret.writes = 1 /\ ret.config = ret.bound

(* C10: when the original constructor of a decorated class is entered, the  *)
(* wrapper has already stored the complete config, and the original gets    *)
(* the positional and keyword arguments of the call as they were; so the    *)
(* guard of LoadableModel.__init__ finds the config whenever a decorated    *)
(* constructor's body reached it, and RuntimeError only comes from a chain  *)
(* without a decorated constructor.                                         *)
C10_StoredBeforeBody ==
    /\ \A i \in 1..Len(stack) :
         (/\ stack[i].fn \in ClassNames
          /\ ClassTable[stack[i].fn].decorated
          /\ stack[i].at \in {"enter", "body", "wait"})
         => /\ stack[i].fargs = stack[i].args
            /\ stack[i].fkwargs = stack[i].kwargs
            /\ inst.hasConfig
    /\ (/\ stack # <<>>
        /\ Top.fn \in ClassNames
        /\ ClassTable[Top.fn].decorated
        /\ Top.at = "enter")
       => inst.config = StoreConfig(Attrs(Top.fn), Defaults(Top.fn),
                                    Top.args, Top.kwargs)
    /\ (/\ stack # <<>>
        /\ Top.fn = "LoadableModel"
        /\ ClassTable[inst.cls].decorated)
       => inst.hasConfig /\ exc # "RuntimeError"
    /\ origin = "RuntimeError" => Undecorated(ctorCall.cls)

\* the body of Simple's constructor, called with a positional and a keyword
\* argument, has reached LoadableModel.__init__ and passed its guard
C10_Witness ==
    /\ Len(stack) = 2
    /\ stack[1].fn = "Simple" /\ stack[1].at = "wait"
    /\ Len(stack[1].fargs) = 1 /\ DOMAIN stack[1].fkwargs = {"c"}
    /\ stack[2].fn = "LoadableModel" /\ stack[2].at = "keras"

====
